---- MODULE Spec2Model ----
(***************************************************************************)
(* A state-machine model of the shortest-path indexer                      *)
(* (src/graphormer/functional.py), of the training loop                    *)
(* (src/graphormer/train.py), of the GreedyLR scheduler it drives and of   *)
(* the dataset preprocessing (src/data/data_cleaning.py) of the Ames       *)
(* Graphormer.                                                             *)
(*                                                                         *)
(* A networkx DiGraph is the record [nodes, adj]: nodes is the node        *)
(* sequence in insertion order and adj[v] the successors of v in           *)
(* insertion order (the order `for w in G[v]` and G.edges() enumerate).    *)
(* to_networkx builds DiGraphs without self loops over nodes 0..N-1.       *)
(***************************************************************************)
EXTENDS Integers, Sequences, FiniteSets, TLC

VARIABLES
    G,                  \* functional.py: the graph handed to the single-source routine
    fw,                 \* functional.py: the frame of floyd_warshall_source_to_all
    data,               \* batched_shortest_path_distance: the graphs of the batch
    relabeled_graphs,   \* batched_shortest_path_distance: relabeled_graphs
    shift,              \* batched_shortest_path_distance: shift
    node_paths,         \* batched_shortest_path_distance: node_paths
    edge_paths,         \* batched_shortest_path_distance: edge_paths
    bpc,                \* batched_shortest_path_distance: the loop it is in and the index
    hparam_config,      \* train_model: epochs, start_epoch, tune_size, checkpt_save_interval,
                        \*   best_loss, last_effective_batch_num
    accumulation_steps, \* train_model: optimizer_config.accumulation_steps
    train_batches_per_epoch,    \* train_model: len(train_loader)
    eval_batches_per_epoch,     \* train_model: len(test_loader)
    trial,              \* train_model: the search trial (given or None), what was reported
                        \*   to it and its last answer to should_prune()
    scheduler,          \* train_model: the scheduler's kind, its step() calls and last metric;
                        \*   for a GreedyLR taken alone also its parameters and its state
    tl,                 \* train_model: the frame (pc, epoch, batch_idx, eval_idx,
                        \*   total_eval_loss, avg_eval_loss) and clip, the gradient norm
                        \*   found by the last clip_grad_norm_
    grads,              \* the model's .grad: batches backpropagated and not yet applied
    optimizer_steps,    \* optimizer.step() calls so far
    checkpoints,        \* save_checkpoint calls so far, as [tag, epoch, best_loss]
    history,            \* history of the run: best_loss at the start, least total
                        \*   evaluation loss of the epochs that reached the checkpoint
                        \*   decision, sum of the eval batch losses seen in this epoch
    ss,                 \* should_step: the frame of one call
    pr,                 \* data_cleaning.process: the frame of one call (arguments, what
                        \*   shortest_path_distance answers, the outcome and the record)
    ds                  \* a dataset's process(): the raw records, the loop index,
                        \*   data_list, warnings, what was saved and printed

bfsVars == <<G, fw>>
batchVars == <<data, relabeled_graphs, shift, node_paths, edge_paths, bpc>>
loaderVars == <<accumulation_steps, train_batches_per_epoch, eval_batches_per_epoch>>
trainVars == <<hparam_config, loaderVars, trial, scheduler, tl, grads, optimizer_steps,
               checkpoints, history>>
dataVars == <<pr, ds>>
vars == <<bfsVars, batchVars, trainVars, ss, dataVars>>

\* ------------------------------------------------------------------ bounds

MaxNodes == 4
MaxEdges == 4
MaxGraphNodes == 3
MaxGraphEdges == 3
MaxCutoff == 3
MaxGraphs == 2
BatchMaxEdges == 2
MaxAccum == 3
MaxTrainBatches == 3
MaxEvalBatches == 2
MaxEpochs == 2
MaxStartEpoch == 1
MaxInterval == 2
MaxLoss == 1
TuneDen == 2
StepMaxBatches == 10
StepMaxAccum == 5
MaxLrExp == 2
MaxPatience == 1
MaxCooldown == 1
MaxWarmup == 1
MaxWindow == 2
MaxReset == 2
MaxMetric == 1
MaxSchedSteps == 5
MaxAtoms == 3
MaxBonds == 2
MaxExtra == 2
MaxPathEntries == 2
MaxRecords == 3

\* ----------------------------------------------------------------- helpers

Range(s) == {s[i] : i \in DOMAIN s}

Min2(a, b) == IF a <= b THEN a ELSE b

\* Python dict assignment d[k] = v
Put(d, k, v) == [x \in (DOMAIN d) \cup {k} |-> IF x = k THEN v ELSE d[x]]

\* The empty dict
EmptyDict == [x \in {} |-> <<>>]

\* Sequences without repetition over S, of length at most n
DistinctSeqs(S, n) ==
    {s \in UNION {[1..k -> S] : k \in 0..n} :
        \A i, j \in DOMAIN s : i # j => s[i] # s[j]}

\* ------------------------------------------------------------------ graphs

NodeSet(g) == Range(g.nodes)

RECURSIVE AdjChoices(_, _, _)
AdjChoices(n, v, budget) ==
    IF v = n THEN {<<>>}
    ELSE UNION {{<<l>> \o rest : rest \in AdjChoices(n, v + 1, budget - Len(l))} :
                l \in DistinctSeqs((0..(n - 1)) \ {v}, Min2(budget, n - 1))}

\* The DiGraphs to_networkx can build over nodes 0..n-1 with at most maxE edges
DiGraphs(n, maxE) ==
    {[nodes |-> [i \in 1..n |-> i - 1], adj |-> [v \in 0..(n - 1) |-> a[v + 1]],
      directed |-> TRUE] :
        a \in AdjChoices(n, 0, maxE)}

\* The edge lists an undirected nx.Graph is built from: at most maxE edges
\* between distinct nodes of 0..n-1, each edge once, in either orientation
EdgeLists(n, maxE) ==
    {el \in DistinctSeqs({<<u, v>> \in (0..(n - 1)) \X (0..(n - 1)) : u # v}, maxE) :
        \A i, j \in DOMAIN el : el[i] # <<el[j][2], el[j][1]>>}

\* The neighbours of node v in the order the edges touching v were added
RECURSIVE NeighboursOf(_, _, _)
NeighboursOf(el, v, i) ==
    IF i > Len(el) THEN <<>>
    ELSE (IF el[i][1] = v THEN <<el[i][2]>>
          ELSE IF el[i][2] = v THEN <<el[i][1]>> ELSE <<>>)
         \o NeighboursOf(el, v, i + 1)

\* The undirected nx.Graphs over nodes 0..n-1 with at most maxE edges: each
\* edge is in the adjacency of both its ends
Graphs(n, maxE) ==
    {[nodes |-> [i \in 1..n |-> i - 1],
      adj |-> [v \in 0..(n - 1) |-> NeighboursOf(el, v, 1)],
      directed |-> FALSE] :
        el \in EdgeLists(n, maxE)}

\* G.edges(): for each node in node order, its out-edges in adjacency order
RECURSIVE EdgesFrom(_, _)
EdgesFrom(g, i) ==
    IF i > Len(g.nodes) THEN <<>>
    ELSE [j \in 1..Len(g.adj[g.nodes[i]]) |-> <<g.nodes[i], g.adj[g.nodes[i]][j]>>]
         \o EdgesFrom(g, i + 1)

\* G.edges() of an undirected graph: for each node in node order, its edges in
\* adjacency order, except those to a node already gone through; every edge is
\* reported once, from the end that comes first in node order
RECURSIVE EdgesOnceFrom(_, _)
EdgesOnceFrom(g, i) ==
    IF i > Len(g.nodes) THEN <<>>
    ELSE LET seen == {g.nodes[k] : k \in 1..(i - 1)}
             nbrs == SelectSeq(g.adj[g.nodes[i]], LAMBDA w : w \notin seen)
         IN [j \in 1..Len(nbrs) |-> <<g.nodes[i], nbrs[j]>>] \o EdgesOnceFrom(g, i + 1)

G_edges(g) == IF g.directed THEN EdgesFrom(g, 1) ELSE EdgesOnceFrom(g, 1)

\* edges = {edge: i for i, edge in enumerate(G.edges())}
edges(g) ==
    LET es == G_edges(g)
    IN [e \in Range(es) |-> (CHOOSE i \in 1..Len(es) : es[i] = e) - 1]

\* --------------------------------------- floyd_warshall_source_to_all (BFS)

\* cutoff is <<>> for None and <<d>> for the integer d
NoCutoff == <<>>

\* `if source not in G`
SourceMissing(g, source) == source \notin NodeSet(g)

\* Mutant: the visited test is dropped, so a node met again is entered again
Unvisited_Always(w, paths) == TRUE

\* `if w not in node_paths`
Unvisited(w, paths) == w \notin DOMAIN paths

\* `if cutoff is not None and cutoff <= level: break`
CutoffReached(cutoff, level) == cutoff # NoCutoff /\ cutoff[1] <= level

\* node_paths[v] + [w]
ExtendNodePath(path, w) == Append(path, w)

\* Mutant: the edge path of the parent is copied without the new edge
ExtendEdgePath_NoAppend(path, g, node_path) == path

\* Whether the dict edges has the key tuple(node_paths[w][-2:])
EdgeKnown(g, node_path) ==
    <<node_path[Len(node_path) - 1], node_path[Len(node_path)]>> \in DOMAIN edges(g)

\* edge_paths[v] + [edges[tuple(node_paths[w][-2:])]]
ExtendEdgePath(path, g, node_path) ==
    Append(path, edges(g)[<<node_path[Len(node_path) - 1], node_path[Len(node_path)]>>])

\* The (v, w) pairs the two nested for loops of one level go through, in order
RECURSIVE LevelPairs(_, _, _)
LevelPairs(g, thislevel, i) ==
    IF i > Len(thislevel) THEN <<>>
    ELSE [j \in 1..Len(g.adj[thislevel[i]]) |-> <<thislevel[i], g.adj[thislevel[i]][j]>>]
         \o LevelPairs(g, thislevel, i + 1)

\* The frame when the function is called
BfsCall(source, cutoff) ==
    [pc |-> "call", source |-> source, cutoff |-> cutoff, level |-> 0,
     thislevel |-> <<>>, nextlevel |-> <<>>, k |-> 1,
     node_paths |-> EmptyDict, edge_paths |-> EmptyDict]

\* lines 11-19: the source check and the initial tables
BfsEnter(g, b) ==
    IF SourceMissing(g, b.source)
    THEN [b EXCEPT !.pc = "NodeNotFound"]
    ELSE [b EXCEPT !.pc = "while", !.level = 0, !.nextlevel = <<b.source>>,
                   !.node_paths = Put(EmptyDict, b.source, <<b.source>>),
                   !.edge_paths = Put(EmptyDict, b.source, <<>>)]

\* Mutant: the next level is expanded last-found-first
BfsWhile_Reversed(b) ==
    IF b.nextlevel # <<>>
    THEN [b EXCEPT !.pc = "for",
                   !.thislevel = [i \in 1..Len(b.nextlevel) |->
                                     b.nextlevel[Len(b.nextlevel) + 1 - i]],
                   !.nextlevel = <<>>, !.k = 1]
    ELSE [b EXCEPT !.pc = "return"]

\* lines 21-23: the while test and the level swap
BfsWhile(b) ==
    IF b.nextlevel # <<>>
    THEN [b EXCEPT !.pc = "for", !.thislevel = b.nextlevel, !.nextlevel = <<>>, !.k = 1]
    ELSE [b EXCEPT !.pc = "return"]

\* lines 24-29: one iteration of the inner loop, for the pair (v, w)
BfsVisit(g, b) ==
    LET p == LevelPairs(g, b.thislevel, 1)[b.k]
        v == p[1]
        w == p[2]
    IN IF Unvisited(w, b.node_paths)
       THEN LET np == Put(b.node_paths, w, ExtendNodePath(b.node_paths[v], w))
                ep == Put(b.edge_paths, w, ExtendEdgePath(b.edge_paths[v], g, np[w]))
            IN IF EdgeKnown(g, np[w])
               THEN [b EXCEPT !.node_paths = np, !.edge_paths = ep,
                              !.nextlevel = Append(b.nextlevel, w), !.k = b.k + 1]
               ELSE \* line 28 raises after line 27 has stored the node path
                    [b EXCEPT !.pc = "KeyError", !.node_paths = np]
       ELSE [b EXCEPT !.k = b.k + 1]

\* lines 31-34: the level counter and the cutoff break
BfsEndLevel(b) ==
    IF CutoffReached(b.cutoff, b.level + 1)
    THEN [b EXCEPT !.level = b.level + 1, !.pc = "return"]
    ELSE [b EXCEPT !.level = b.level + 1, !.pc = "while"]

\* line 36
BfsReturn(b) == [b EXCEPT !.pc = "done"]

BfsLevelDone(g, b) == b.k > Len(LevelPairs(g, b.thislevel, 1))

BfsStep(g, b) ==
    CASE b.pc = "call" -> BfsEnter(g, b)
      [] b.pc = "while" -> BfsWhile(b)
      [] b.pc = "for" -> IF BfsLevelDone(g, b) THEN BfsEndLevel(b) ELSE BfsVisit(g, b)
      [] b.pc = "return" -> BfsReturn(b)
      [] OTHER -> b

RECURSIVE BfsRun(_, _)
BfsRun(g, b) ==
    IF b.pc \in {"done", "NodeNotFound", "KeyError"} THEN b ELSE BfsRun(g, BfsStep(g, b))

\* The value the call returns: (node_paths, edge_paths)
floyd_warshall_source_to_all(g, source, cutoff) ==
    LET b == BfsRun(g, BfsCall(source, cutoff))
    IN <<b.node_paths, b.edge_paths>>

\* ---------------------------------------------- the single-source machine

Cutoffs == {NoCutoff} \cup {<<d>> : d \in 0..MaxCutoff}

\* No dataset is being built and process is not being called
DataIdle ==
    /\ pr = [pc |-> "idle"]
    /\ ds = [pc |-> "idle"]

\* No run of train_model is in progress
TrainIdle ==
    /\ hparam_config = [epochs |-> 0]
    /\ accumulation_steps = 1
    /\ train_batches_per_epoch = 0
    /\ eval_batches_per_epoch = 0
    /\ trial = [given |-> FALSE]
    /\ scheduler = [kind |-> "fixed"]
    /\ tl = [pc |-> "idle"]
    /\ grads = 0
    /\ optimizer_steps = 0
    /\ checkpoints = <<>>
    /\ history = <<>>

\* No call of should_step is in progress
StepIdle == ss = [pc |-> "idle"]

\* No call of the batched routine is in progress
BatchIdle ==
    /\ data = <<>>
    /\ relabeled_graphs = <<>>
    /\ shift = 0
    /\ node_paths = EmptyDict
    /\ edge_paths = EmptyDict
    /\ bpc = [at |-> "idle", i |-> 1]

InitBfs ==
    /\ DataIdle
    /\ BatchIdle
    /\ TrainIdle
    /\ StepIdle
    /\ G \in UNION {DiGraphs(n, MaxEdges) : n \in 1..MaxNodes}
    /\ \E source \in 0..Len(G.nodes), cutoff \in Cutoffs : fw = BfsCall(source, cutoff)

Enter ==
    /\ fw.pc = "call"
    /\ fw' = BfsEnter(G, fw)
    /\ UNCHANGED <<G, batchVars, trainVars, ss, dataVars>>

While ==
    /\ fw.pc = "while"
    /\ fw' = BfsWhile(fw)
    /\ UNCHANGED <<G, batchVars, trainVars, ss, dataVars>>

Visit ==
    /\ fw.pc = "for"
    /\ ~BfsLevelDone(G, fw)
    /\ fw' = BfsVisit(G, fw)
    /\ UNCHANGED <<G, batchVars, trainVars, ss, dataVars>>

EndLevel ==
    /\ fw.pc = "for"
    /\ BfsLevelDone(G, fw)
    /\ fw' = BfsEndLevel(fw)
    /\ UNCHANGED <<G, batchVars, trainVars, ss, dataVars>>

Return ==
    /\ fw.pc = "return"
    /\ fw' = BfsReturn(fw)
    /\ UNCHANGED <<G, batchVars, trainVars, ss, dataVars>>

NextBfs == Enter \/ While \/ Visit \/ EndLevel \/ Return

SpecBfs == InitBfs /\ [][NextBfs]_vars

\* The same call on an undirected nx.Graph
InitGraph ==
    /\ DataIdle
    /\ BatchIdle
    /\ TrainIdle
    /\ StepIdle
    /\ G \in UNION {Graphs(n, MaxGraphEdges) : n \in 1..MaxGraphNodes}
    /\ \E source \in 0..Len(G.nodes), cutoff \in Cutoffs : fw = BfsCall(source, cutoff)

SpecGraph == InitGraph /\ [][NextBfs]_vars

\* ------------------------------------------------ the all-pairs routines

\* lines 39-43
all_pairs_shortest_path(g) ==
    LET paths == [n \in NodeSet(g) |-> floyd_warshall_source_to_all(g, n, NoCutoff)]
    IN <<[n \in NodeSet(g) |-> paths[n][1]], [n \in NodeSet(g) |-> paths[n][2]]>>

\* lines 52-57
batched_all_pairs_shortest_path(g) ==
    LET paths == [n \in NodeSet(g) |-> floyd_warshall_source_to_all(g, n, NoCutoff)]
    IN <<[n \in NodeSet(g) |-> paths[n][1]], [n \in NodeSet(g) |-> paths[n][2]]>>

\* lines 46-49, on the graph to_networkx(data) builds
shortest_path_distance(g) == all_pairs_shortest_path(g)

\* --------------------------------------- batched_shortest_path_distance

\* Mutant: the mapping leaves the running offset out
ShiftMapping_NoShift(num_nodes, sh) == [i \in 0..(num_nodes - 1) |-> i]

\* {i: i + shift for i in range(num_nodes)}
ShiftMapping(num_nodes, sh) == [i \in 0..(num_nodes - 1) |-> i + sh]

\* Mutant: the copy lists every node's neighbours in reverse
relabel_nodes_Reversed(g, mapping) ==
    LET new(n) == IF n \in DOMAIN mapping THEN mapping[n] ELSE n
        nodes == [i \in 1..Len(g.nodes) |-> new(g.nodes[i])]
    IN [nodes |-> nodes,
        adj |-> [v \in Range(nodes) |->
                    LET old == CHOOSE u \in NodeSet(g) : new(u) = v
                    IN [j \in 1..Len(g.adj[old]) |->
                           new(g.adj[old][Len(g.adj[old]) + 1 - j])]],
        directed |-> g.directed]

\* nx.relabel_nodes(graph, mapping): a copy with the nodes renamed, node order
\* and adjacency order kept
relabel_nodes(g, mapping) ==
    LET new(n) == IF n \in DOMAIN mapping THEN mapping[n] ELSE n
        nodes == [i \in 1..Len(g.nodes) |-> new(g.nodes[i])]
    IN [nodes |-> nodes,
        adj |-> [v \in Range(nodes) |->
                    LET old == CHOOSE u \in NodeSet(g) : new(u) = v
                    IN [j \in 1..Len(g.adj[old]) |-> new(g.adj[old][j])]],
        directed |-> g.directed]

\* Mutant: the running offset is not advanced
NextShift_Stuck(sh, num_nodes) == sh

\* shift += num_nodes
NextShift(sh, num_nodes) == sh + num_nodes

\* for k, v in part.items(): table[k] = v
MergeInto(table, part) ==
    [k \in (DOMAIN table) \cup (DOMAIN part) |->
        IF k \in DOMAIN part THEN part[k] ELSE table[k]]

\* The graphs of one batch: pool.map(to_networkx, data.to_data_list())
BatchGraphs == UNION {DiGraphs(n, BatchMaxEdges) : n \in 1..MaxNodes}

BfsIdle ==
    /\ G = [nodes |-> <<>>, adj |-> EmptyDict, directed |-> TRUE]
    /\ fw = [pc |-> "idle"]

InitBatch ==
    /\ DataIdle
    /\ BfsIdle
    /\ TrainIdle
    /\ StepIdle
    /\ data \in UNION {[1..k -> BatchGraphs] : k \in 0..MaxGraphs}
    /\ relabeled_graphs = <<>>
    /\ shift = 0
    /\ node_paths = EmptyDict
    /\ edge_paths = EmptyDict
    /\ bpc = [at |-> "relabel", i |-> 1]

\* lines 65-68: one iteration of the relabelling loop
RelabelGraph ==
    /\ bpc.at = "relabel"
    /\ bpc.i <= Len(data)
    /\ LET graph == data[bpc.i]
           num_nodes == Len(graph.nodes)
       IN /\ relabeled_graphs' =
                 Append(relabeled_graphs, relabel_nodes(graph, ShiftMapping(num_nodes, shift)))
          /\ shift' = NextShift(shift, num_nodes)
    /\ bpc' = [bpc EXCEPT !.i = bpc.i + 1]
    /\ UNCHANGED <<data, node_paths, edge_paths, bfsVars, trainVars, ss, dataVars>>

\* lines 70-71: the relabelling loop is over, the merged tables start empty
StartMerge ==
    /\ bpc.at = "relabel"
    /\ bpc.i > Len(data)
    /\ node_paths' = EmptyDict
    /\ edge_paths' = EmptyDict
    /\ bpc' = [at |-> "merge", i |-> 1]
    /\ UNCHANGED <<data, relabeled_graphs, shift, bfsVars, trainVars, ss, dataVars>>

\* lines 73-77: one iteration of the merge loop, on the tables of one graph
MergeGraph ==
    /\ bpc.at = "merge"
    /\ bpc.i <= Len(relabeled_graphs)
    /\ LET path == batched_all_pairs_shortest_path(relabeled_graphs[bpc.i])
       IN /\ node_paths' = MergeInto(node_paths, path[1])
          /\ edge_paths' = MergeInto(edge_paths, path[2])
    /\ bpc' = [bpc EXCEPT !.i = bpc.i + 1]
    /\ UNCHANGED <<data, relabeled_graphs, shift, bfsVars, trainVars, ss, dataVars>>

\* line 79
ReturnBatch ==
    /\ bpc.at = "merge"
    /\ bpc.i > Len(relabeled_graphs)
    /\ bpc' = [bpc EXCEPT !.at = "done"]
    /\ UNCHANGED <<data, relabeled_graphs, shift, node_paths, edge_paths, bfsVars, trainVars, ss, dataVars>>

NextBatch == RelabelGraph \/ StartMerge \/ MergeGraph \/ ReturnBatch

SpecBatch == InitBatch /\ [][NextBatch]_vars

\* ------------------------------------------------------------- should_step

\* Mutant: the flush on the last batch of the epoch is missing
should_step_NoFlush(batch_idx, accum, batches) ==
    IF accum <= 1 THEN TRUE
    ELSE IF batch_idx > 0 /\ (batch_idx + 1) % accum = 0 THEN TRUE
    ELSE FALSE

\* train.py lines 246-253
should_step(batch_idx, accum, batches) ==
    IF accum <= 1 THEN TRUE
    ELSE IF batch_idx > 0 /\ (batch_idx + 1) % accum = 0 THEN TRUE
    ELSE IF batch_idx >= batches - 1 THEN TRUE
    ELSE FALSE

InitStep ==
    /\ DataIdle
    /\ BfsIdle
    /\ BatchIdle
    /\ TrainIdle
    /\ \E batches \in 1..StepMaxBatches, batch_idx \in 0..(StepMaxBatches - 1),
          accum \in (-1)..StepMaxAccum :
          /\ batch_idx < batches
          /\ ss = [pc |-> "call", batch_idx |-> batch_idx, accumulation_steps |-> accum,
                   train_batches_per_epoch |-> batches, result |-> FALSE]

\* One call of should_step, from its arguments to its return value
CallShouldStep ==
    /\ ss.pc = "call"
    /\ ss' = [ss EXCEPT !.pc = "returned",
                        !.result = should_step(ss.batch_idx, ss.accumulation_steps,
                                               ss.train_batches_per_epoch)]
    /\ UNCHANGED <<bfsVars, batchVars, trainVars, dataVars>>

NextStep == CallShouldStep

SpecStep == InitStep /\ [][NextStep]_vars

\* ------------------------------------------------------------- train_model

\* options.py lines 4-9
SchedulerType == {"greedy", "polynomial", "plateau", "one-cycle", "fixed"}

\* Mutant: the polynomial schedule is stepped with the optimizer as well
IsOneCycle_OrPolynomial(sch) == sch.kind \in {"one-cycle", "polynomial"}

\* isinstance(scheduler, OneCycleLR)
IsOneCycle(sch) == sch.kind = "one-cycle"

\* Mutant: the one-cycle schedule is stepped at the end of the train phase as well
IsPolynomial_OrOneCycle(sch) == sch.kind \in {"polynomial", "one-cycle"}

\* Mutant: the plateau schedule is stepped where the polynomial one is, before
\* the eval phase
IsPolynomial_OrPlateau(sch) == sch.kind \in {"polynomial", "plateau"}

\* isinstance(scheduler, PolynomialLR)
IsPolynomial(sch) == sch.kind = "polynomial"

\* Mutant: GreedyLR is missing from the isinstance tuple
IsMetricDriven_PlateauOnly(sch) == sch.kind = "plateau"

\* isinstance(scheduler, (ReduceLROnPlateau, GreedyLR))
IsMetricDriven(sch) == sch.kind \in {"plateau", "greedy"}

\* scheduler.step() and scheduler.step(metric); no metric is <<>>
SchedulerStep(sch, metric) == [sch EXCEPT !.steps = sch.steps + 1, !.metric = metric]

\* Python's a % b for b # 0: the result has the sign of b
PyMod(a, b) == IF b > 0 THEN a % b ELSE 0 - ((0 - a) % (0 - b))

\* A loss no evaluation reaches (float("inf"))
InfLoss == MaxLoss * MaxEvalBatches + 1

\* The loss of one eval batch (loss.item()): none or some
BatchLosses == {0, MaxLoss}

\* Mutant: the cutoff does not ask whether a trial is given
CutShort_NoTrialTest(batch_idx) ==
    batch_idx * TuneDen > hparam_config.tune_size * train_batches_per_epoch

\* line 91: batch_idx / train_batches_per_epoch > hparam_config.tune_size and
\* trial is not None; tune_size is held in units of 1/TuneDen
CutShort(batch_idx) ==
    /\ batch_idx * TuneDen > hparam_config.tune_size * train_batches_per_epoch
    /\ trial.given

\* Mutant: a loss equal to the best counts as an improvement
ImprovesBest_OrEqual(total_eval_loss, best_loss) == total_eval_loss <= best_loss

\* line 215: total_eval_loss < hparam_config.best_loss
ImprovesBest(total_eval_loss, best_loss) == total_eval_loss < best_loss

\* Mutant: the interval is counted from epoch 1, as the progress messages do
OnInterval_FromOne(epoch, interval) == PyMod(epoch + 1, interval) = 0

\* line 227: epoch % hparam_config.checkpt_save_interval == 0
OnInterval(epoch, interval) == PyMod(epoch, interval) = 0

\* The gradient norm clip_grad_norm_ computes: a number, or inf / nan
GradNorms == {"finite", "nonfinite"}

\* Mutant: error_if_nonfinite is left at its default, False
ClipRaises_Never(total_norm) == FALSE

\* line 115: clip_grad_norm_(..., error_if_nonfinite=True) raises RuntimeError
\* when the total norm is nan or inf
ClipRaises(total_norm) == total_norm = "nonfinite"

\* Mutant: the pruning answer is read and the run goes on
Pruned_Ignored(answer) == FALSE

\* lines 239-240: if trial.should_prune(): raise TrialPruned
Pruned(answer) == answer

InitTrain ==
    /\ DataIdle
    /\ BfsIdle
    /\ BatchIdle
    /\ StepIdle
    /\ accumulation_steps \in 1..MaxAccum
    /\ train_batches_per_epoch \in 0..MaxTrainBatches
    /\ eval_batches_per_epoch \in 0..MaxEvalBatches
    /\ \E start_epoch \in 0..MaxStartEpoch, epochs \in 0..MaxEpochs,
          tune_size \in 0..TuneDen, interval \in (-1)..MaxInterval,
          best_loss \in {MaxLoss, InfLoss} :
          /\ start_epoch <= epochs
          /\ hparam_config = [epochs |-> epochs, start_epoch |-> start_epoch,
                              tune_size |-> tune_size, checkpt_save_interval |-> interval,
                              best_loss |-> best_loss, last_effective_batch_num |-> 0]
          /\ tl = [pc |-> "epoch", epoch |-> start_epoch, batch_idx |-> 0, eval_idx |-> 0,
                   total_eval_loss |-> 0, avg_eval_loss |-> <<InfLoss, 1>>,
                   clip |-> "none"]
          /\ history = [best_loss |-> best_loss, min_total |-> InfLoss, epoch_eval_sum |-> 0]
    /\ trial \in [given : BOOLEAN, reports : {<<>>}, should_prune : {FALSE}]
    /\ scheduler \in [kind : SchedulerType, steps : {0}, metric : {<<>>}]
    /\ grads = 0
    /\ optimizer_steps = 0
    /\ checkpoints = <<>>

\* lines 78-89: the next epoch of range(start_epoch, epochs) begins
StartEpoch ==
    /\ tl.pc = "epoch"
    /\ tl.epoch < hparam_config.epochs
    /\ tl' = [tl EXCEPT !.pc = "train", !.batch_idx = 0, !.total_eval_loss = 0]
    /\ history' = [history EXCEPT !.epoch_eval_sum = 0]
    /\ UNCHANGED <<hparam_config, loaderVars, trial, scheduler, grads, optimizer_steps,
                   checkpoints, bfsVars, batchVars, ss,
                   dataVars>>

\* lines 90-140: one train batch, from the cutoff test to the end of the body
TrainBatch ==
    /\ tl.pc = "train"
    /\ tl.batch_idx < train_batches_per_epoch
    /\ ~CutShort(tl.batch_idx)
    /\ \E total_norm \in GradNorms :
        LET train_batch_num == tl.epoch * train_batches_per_epoch + tl.batch_idx
            \* lines 96-101: the first batch of a run without a trial zeroes the gradients
            before == IF train_batch_num = 0 /\ ~trial.given THEN 0 ELSE grads
            \* line 113: loss.backward() adds this batch's gradients
            after == before + 1
            step == should_step(tl.batch_idx, accumulation_steps, train_batches_per_epoch)
        IN IF ClipRaises(total_norm)
           THEN \* line 115: clip_grad_norm_(..., error_if_nonfinite=True) raises
                /\ grads' = after
                /\ tl' = [tl EXCEPT !.pc = "RuntimeError", !.clip = total_norm]
                /\ UNCHANGED <<hparam_config, scheduler, optimizer_steps>>
           ELSE \* lines 117-122
                /\ grads' = IF step THEN 0 ELSE after
                /\ optimizer_steps' = IF step THEN optimizer_steps + 1 ELSE optimizer_steps
                /\ scheduler' = IF step /\ IsOneCycle(scheduler)
                                THEN SchedulerStep(scheduler, <<>>) ELSE scheduler
                /\ hparam_config' =
                       IF step /\ IsOneCycle(scheduler)
                       THEN [hparam_config EXCEPT !.last_effective_batch_num =
                                                     hparam_config.last_effective_batch_num + 1]
                       ELSE hparam_config
                /\ tl' = [tl EXCEPT !.batch_idx = tl.batch_idx + 1, !.clip = total_norm]
    /\ UNCHANGED <<loaderVars, trial, checkpoints, history, bfsVars, batchVars, ss, dataVars>>

\* lines 90-92 and 141-161: the batch loop ends (exhausted, or cut short in a
\* trial), a polynomial scheduler steps, the eval phase is set up
EndTrainPhase ==
    /\ tl.pc = "train"
    /\ tl.batch_idx >= train_batches_per_epoch \/ CutShort(tl.batch_idx)
    /\ scheduler' = IF IsPolynomial(scheduler) THEN SchedulerStep(scheduler, <<>>) ELSE scheduler
    /\ tl' = [tl EXCEPT !.pc = "eval", !.eval_idx = 0]
    /\ UNCHANGED <<hparam_config, loaderVars, trial, grads, optimizer_steps, checkpoints,
                   history, bfsVars, batchVars, ss,
                   dataVars>>

\* lines 162-188: one eval batch
EvalBatch ==
    /\ tl.pc = "eval"
    /\ tl.eval_idx < eval_batches_per_epoch
    /\ \E batch_loss \in BatchLosses :
          /\ tl' = [tl EXCEPT !.total_eval_loss = tl.total_eval_loss + batch_loss,
                              !.eval_idx = tl.eval_idx + 1]
          /\ history' = [history EXCEPT !.epoch_eval_sum = history.epoch_eval_sum + batch_loss]
    /\ UNCHANGED <<hparam_config, loaderVars, trial, scheduler, grads, optimizer_steps,
                   checkpoints, bfsVars, batchVars, ss,
                   dataVars>>

\* lines 190-213: the metric-driven scheduler steps on the total evaluation loss,
\* then avg_eval_loss = total_eval_loss / len(test_loader), held as the pair
\* <<numerator, denominator>> (sum reduction divides it further by the constant
\* batch size)
EndEvalPhase ==
    /\ tl.pc = "eval"
    /\ tl.eval_idx >= eval_batches_per_epoch
    /\ scheduler' = IF IsMetricDriven(scheduler)
                    THEN SchedulerStep(scheduler, <<tl.total_eval_loss>>) ELSE scheduler
    /\ tl' = IF eval_batches_per_epoch = 0
             THEN [tl EXCEPT !.pc = "ZeroDivisionError"]
             ELSE [tl EXCEPT !.pc = "checkpoint",
                             !.avg_eval_loss = <<tl.total_eval_loss, eval_batches_per_epoch>>]
    /\ UNCHANGED <<hparam_config, loaderVars, trial, grads, optimizer_steps, checkpoints,
                   history, bfsVars, batchVars, ss,
                   dataVars>>

\* lines 215-235: the "best" checkpoint, then the periodic one
Checkpoint ==
    /\ tl.pc = "checkpoint"
    /\ LET best == ImprovesBest(tl.total_eval_loss, hparam_config.best_loss) /\ ~trial.given
           hp == IF best THEN [hparam_config EXCEPT !.best_loss = tl.total_eval_loss]
                 ELSE hparam_config
           saved == IF best
                    THEN Append(checkpoints, [tag |-> "best", epoch |-> tl.epoch,
                                              best_loss |-> hp.best_loss])
                    ELSE checkpoints
       IN /\ hparam_config' = hp
          /\ history' = [history EXCEPT !.min_total = Min2(history.min_total, tl.total_eval_loss)]
          /\ IF hp.checkpt_save_interval = 0
             THEN \* line 227: epoch % 0
                  /\ checkpoints' = saved
                  /\ tl' = [tl EXCEPT !.pc = "ZeroDivisionError"]
             ELSE /\ checkpoints' =
                        IF OnInterval(tl.epoch, hp.checkpt_save_interval) /\ ~trial.given
                        THEN Append(saved, [tag |-> "epoch", epoch |-> tl.epoch,
                                            best_loss |-> hp.best_loss])
                        ELSE saved
                  /\ tl' = [tl EXCEPT !.pc = "prune"]
    /\ UNCHANGED <<loaderVars, trial, scheduler, grads, optimizer_steps, bfsVars, batchVars, ss, dataVars>>

\* lines 237-240: the report to the trial and the pruning question; then the
\* loop goes to the next epoch
PruneCheck ==
    /\ tl.pc = "prune"
    /\ IF trial.given
       THEN \E answer \in BOOLEAN :
               /\ trial' = [trial EXCEPT
                              !.reports = Append(trial.reports,
                                                 [value |-> tl.avg_eval_loss, step |-> tl.epoch]),
                              !.should_prune = answer]
               /\ tl' = IF Pruned(answer)
                        THEN [tl EXCEPT !.pc = "TrialPruned"]
                        ELSE [tl EXCEPT !.pc = "epoch", !.epoch = tl.epoch + 1]
       ELSE /\ trial' = trial
            /\ tl' = [tl EXCEPT !.pc = "epoch", !.epoch = tl.epoch + 1]
    /\ UNCHANGED <<hparam_config, loaderVars, scheduler, grads, optimizer_steps, checkpoints,
                   history, bfsVars, batchVars, ss,
                   dataVars>>

\* lines 242-243: range(start_epoch, epochs) is exhausted
Finish ==
    /\ tl.pc = "epoch"
    /\ tl.epoch >= hparam_config.epochs
    /\ tl' = [tl EXCEPT !.pc = "returned"]
    /\ UNCHANGED <<hparam_config, loaderVars, trial, scheduler, grads, optimizer_steps,
                   checkpoints, history, bfsVars, batchVars, ss,
                   dataVars>>

NextTrain ==
    \/ StartEpoch
    \/ TrainBatch
    \/ EndTrainPhase
    \/ EvalBatch
    \/ EndEvalPhase
    \/ Checkpoint
    \/ PruneCheck
    \/ Finish

SpecTrain == InitTrain /\ [][NextTrain]_vars

\* ------------------------------------------------------ GreedyLR (spec 4.3)
\* graphormer/schedulers.py is not part of the sources at hand; the scheduler is
\* modelled from its description: warmup, sliding window and smoothing, patience,
\* reduction by factor, cooldown, reset, and the [min_lr, max_lr] bounds.
\* Learning rates are powers of two of a common unit and factor is the pair
\* <<numerator, denominator>>, so that every product and quotient is exact.

RECURSIVE Pow2(_)
Pow2(k) == IF k = 0 THEN 1 ELSE 2 * Pow2(k - 1)

LrValues == {Pow2(k) : k \in 0..MaxLrExp}

Factors == {<<1, 2>>, <<1, 4>>}

Metrics == 0..MaxMetric

\* A metric no evaluation reaches: the best value before any evaluation
InfMetric == <<MaxMetric + 1, 1>>

RECURSIVE SeqSum(_)
SeqSum(q) == IF q = <<>> THEN 0 ELSE q[1] + SeqSum(Tail(q))

\* The window keeps the last window_size metric values
Slide(window, metric, window_size) ==
    LET w == Append(window, metric)
    IN IF Len(w) > window_size THEN Tail(w) ELSE w

\* The monitored statistic as the fraction <<sum, count>>: the moving average of
\* the window when smooth is enabled, the latest value otherwise
Statistic(sch, window, metric) ==
    IF sch.smooth THEN <<SeqSum(window), Len(window)>> ELSE <<metric, 1>>

\* a improves on b (mode "min"): a < b as fractions
Improves(a, b) == a[1] * b[2] < b[1] * a[2]

\* Warmup raises the rate by 1/factor, bounded above by max_lr
IncreaseLr(sch) ==
    LET raised == (sch.lr * sch.factor[2]) \div sch.factor[1]
    IN IF raised >= sch.max_lr THEN sch.max_lr ELSE raised

\* Mutant: the reduced rate is not bounded below
ReduceLr_NoFloor(sch) == (sch.lr * sch.factor[1]) \div sch.factor[2]

\* A reduction multiplies the rate by factor, bounded below by min_lr
ReduceLr(sch) ==
    IF sch.lr * sch.factor[1] <= sch.min_lr * sch.factor[2]
    THEN sch.min_lr
    ELSE (sch.lr * sch.factor[1]) \div sch.factor[2]

\* Mutant: a reduction can trigger in the cooldown period as well
InCooldown_Never(sch) == FALSE

\* The cooldown period is running
InCooldown(sch) == sch.cooldown_counter > 0

\* The learning rate and the internal state go back to their initial values
ResetState(sch) ==
    [sch EXCEPT !.lr = sch.initial_lr, !.best = InfMetric, !.window = <<>>,
                !.num_bad = 0, !.num_stuck = 0, !.cooldown_counter = 0,
                !.warmup_counter = sch.warmup]

\* One step(metric) of the scheduler
GreedyLR_step(sch, metric) ==
    IF sch.warmup_counter > 0
    THEN \* warmup: the rate rises whatever the metric does
         [sch EXCEPT !.lr = IncreaseLr(sch), !.warmup_counter = sch.warmup_counter - 1,
                     !.streak = 0, !.did = "warmup"]
    ELSE LET window == Slide(sch.window, metric, sch.window_size)
             stat == Statistic(sch, window, metric)
             seen == [sch EXCEPT !.window = window]
         IN IF Improves(stat, sch.best)
            THEN [seen EXCEPT !.best = stat, !.num_bad = 0, !.num_stuck = 0,
                              !.cooldown_counter =
                                  IF InCooldown(sch) THEN sch.cooldown_counter - 1 ELSE 0,
                              !.streak = 0, !.did = "improved"]
            ELSE LET streak == sch.streak + 1
                     lr0 == IF sch.streak = 0 THEN sch.lr ELSE sch.lr0
                     cd0 == IF sch.streak = 0 THEN sch.cooldown_counter ELSE sch.cd0
                     due == ~InCooldown(sch) /\ sch.num_bad + 1 > sch.patience
                     lr == IF due THEN ReduceLr(sch) ELSE sch.lr
                     num_stuck == IF due /\ lr < sch.lr THEN 0 ELSE sch.num_stuck + 1
                     next == [seen EXCEPT
                                !.lr = lr,
                                !.num_bad = IF InCooldown(sch) \/ due THEN 0
                                            ELSE sch.num_bad + 1,
                                !.cooldown_counter =
                                    IF InCooldown(sch) THEN sch.cooldown_counter - 1
                                    ELSE IF due THEN sch.cooldown ELSE 0,
                                !.num_stuck = num_stuck,
                                !.streak = streak, !.lr0 = lr0, !.cd0 = cd0,
                                !.did = IF due THEN "reduced"
                                        ELSE IF InCooldown(sch) THEN "cooldown" ELSE "waited"]
                 IN IF sch.reset > 0 /\ num_stuck >= sch.reset
                    THEN [ResetState(next) EXCEPT !.did = "reset"]
                    ELSE next

\* cli.py lines 131-143: a GreedyLR is built on the optimizer; nothing else runs
InitGreedy ==
    /\ DataIdle
    /\ BfsIdle
    /\ BatchIdle
    /\ StepIdle
    /\ hparam_config = [epochs |-> 0]
    /\ accumulation_steps = 1
    /\ train_batches_per_epoch = 0
    /\ eval_batches_per_epoch = 0
    /\ trial = [given |-> FALSE]
    /\ tl = [pc |-> "idle"]
    /\ grads = 0
    /\ optimizer_steps = 0
    /\ checkpoints = <<>>
    /\ history = <<>>
    /\ \E min_lr \in LrValues, max_lr \in LrValues, lr \in LrValues, factor \in Factors,
          patience \in 0..MaxPatience, cooldown \in 0..MaxCooldown, warmup \in 0..MaxWarmup,
          window_size \in 1..MaxWindow, smooth \in BOOLEAN, reset \in 0..MaxReset :
          /\ min_lr <= lr
          /\ lr <= max_lr
          /\ scheduler = [kind |-> "greedy", steps |-> 0, metric |-> <<>>,
                          min_lr |-> min_lr, max_lr |-> max_lr, factor |-> factor,
                          patience |-> patience, cooldown |-> cooldown, warmup |-> warmup,
                          window_size |-> window_size, smooth |-> smooth, reset |-> reset,
                          initial_lr |-> lr, lr |-> lr, best |-> InfMetric, window |-> <<>>,
                          num_bad |-> 0, num_stuck |-> 0, cooldown_counter |-> 0,
                          warmup_counter |-> warmup,
                          streak |-> 0, lr0 |-> lr, cd0 |-> 0, did |-> "built"]

\* train.py lines 190-191: scheduler.step(total_eval_loss), for any loss
GreedyStep ==
    /\ scheduler.kind = "greedy"
    /\ scheduler.steps < MaxSchedSteps
    /\ \E metric \in Metrics :
          scheduler' = GreedyLR_step(SchedulerStep(scheduler, <<metric>>), metric)
    /\ UNCHANGED <<hparam_config, loaderVars, trial, tl, grads, optimizer_steps, checkpoints,
                   history, bfsVars, batchVars, ss,
                   dataVars>>

NextGreedy == GreedyStep

SpecGreedy == InitGreedy /\ [][NextGreedy]_vars

\* -------------------------------------------------------- data_cleaning.py
\* A tensor is the sequence of its rows (x, edge_attr: one tag per row;
\* edge_index: one <<source, target>> per column) or of its entries (edge_paths).

\* Pairs of atoms that a bond can join
AtomPairs(n) == {<<u, v>> : u \in 0..(n - 1), v \in 0..(n - 1)} \ {<<u, u>> : u \in 0..(n - 1)}

BondSets(n) == {b \in SUBSET {p \in AtomPairs(n) : p[1] < p[2]} : Cardinality(b) <= MaxBonds}

\* The molecules a parseable SMILES string can stand for. A SMILES string is
\* held as what Chem.MolFromSmiles makes of it: <<molecule>>, or <<>> for None.
Molecules == UNION {[atoms : {n}, bonds : BondSets(n)] : n \in 1..MaxAtoms}

EdgeLess(a, b) == a[1] < b[1] \/ (a[1] = b[1] /\ a[2] < b[2])

RECURSIVE SortedEdges(_)
SortedEdges(es) ==
    IF es = {} THEN <<>>
    ELSE LET m == CHOOSE e \in es : \A f \in es \ {e} : EdgeLess(e, f)
         IN <<m>> \o SortedEdges(es \ {m})

\* line 170: from_smiles gives one node-feature row per atom and, for every
\* bond, both directions in edge_index (sorted) with one edge-feature row each
from_smiles(smiles) ==
    LET mol == smiles[1]
        directed == mol.bonds \cup {<<b[2], b[1]>> : b \in mol.bonds}
    IN [x |-> [i \in 1..mol.atoms |-> "atom"],
        edge_index |-> SortedEdges(directed),
        edge_attr |-> [i \in 1..Cardinality(directed) |-> "bond"]]

\* Chem.MolFromSmiles(smiles) is None
Unparseable(smiles) == smiles = <<>>

\* Mutant: the label is not looked at
check_smiles_and_label_NoLabelCheck(smiles, label) ==
    IF Unparseable(smiles) THEN <<"WARN: Invalid SMILES", smiles>>
    ELSE <<>>

\* lines 11-19; None is <<>>
check_smiles_and_label(smiles, label) ==
    IF label = "nan" THEN <<"WARN: No label", smiles>>
    ELSE IF Unparseable(smiles) THEN <<"WARN: Invalid SMILES", smiles>>
    ELSE <<>>

\* The largest edge index a path tensor of the model can hold
MaxPathIdx == 2 * MaxBonds + MaxExtra + 1

\* The entries of an edge_paths tensor (-1 pads)
PathTensors == UNION {[1..k -> (-1)..MaxPathIdx] : k \in 0..MaxPathEntries}

\* line 172: what the call shortest_path_distance(data.edge_index, max_distance)
\* can answer. functional.py defines shortest_path_distance(data) with one
\* parameter and two results, so against it the call raises TypeError; the
\* function the call is written for answers three tensors, of which process
\* uses the entries of edge_paths and the number of rows of extra_edge_idxs.
PathAnswers ==
    {[raises |-> TRUE, edge_paths |-> <<>>, extra_edge_idxs |-> 0]}
        \cup [raises : {FALSE}, edge_paths : PathTensors, extra_edge_idxs : 0..MaxExtra]

\* torch.max of a non-empty tensor
RECURSIVE TensorMax(_)
TensorMax(t) ==
    IF Len(t) = 1 THEN t[1]
    ELSE LET m == TensorMax(Tail(t)) IN IF t[1] >= m THEN t[1] ELSE m

\* lines 174-187: the super node row goes to the front of x, then one edge from
\* node 0 to every row index of the new x goes to the front of edge_index, and
\* edge_attr gets one sentinel row in front and one per row of extra_edge_idxs
\* behind
Augment(d, label, answer) ==
    LET x == <<"super">> \o d.x
        new_idxs == [i \in 1..Len(x) |-> <<0, i - 1>>]
    IN [x |-> x,
        y |-> label,
        edge_index |-> new_idxs \o d.edge_index,
        edge_paths |-> answer.edge_paths,
        edge_attr |-> <<"pad">> \o d.edge_attr
                          \o [i \in 1..answer.extra_edge_idxs |-> "pad"]]

\* Mutant: the assertion asks for enough rows, not for exactly as many
EdgeAttrsComplete_AtLeast(rows, max_edge_index) == rows - 1 >= max_edge_index

\* line 189: data.edge_attr.shape[0] - 1 == torch.max(data.edge_paths)
EdgeAttrsComplete(rows, max_edge_index) == rows - 1 = max_edge_index

\* lines 169-192: the outcome of process and, when it returns, the record
process(smiles, label, answer) ==
    IF answer.raises THEN [pc |-> "TypeError", data |-> <<>>]
    ELSE LET augmented == Augment(from_smiles(smiles), label, answer)
         IN IF augmented.edge_paths = <<>>
            THEN \* torch.max of an empty tensor
                 [pc |-> "RuntimeError", data |-> <<>>]
            ELSE IF EdgeAttrsComplete(Len(augmented.edge_attr),
                                      TensorMax(augmented.edge_paths))
                 THEN [pc |-> "returned", data |-> augmented]
                 ELSE [pc |-> "AssertionError", data |-> <<>>]

\* The ames column: "0", "1", or "nan" for an empty cell
Labels == {"0", "1"}

InitProcess ==
    /\ BfsIdle
    /\ BatchIdle
    /\ TrainIdle
    /\ StepIdle
    /\ ds = [pc |-> "idle"]
    /\ pr \in [pc : {"call"}, smiles : {<<m>> : m \in Molecules}, label : Labels, answer : PathAnswers,
                data : {<<>>}]

\* One call of process, from its arguments to its return or its exception
CallProcess ==
    /\ pr.pc = "call"
    /\ LET out == process(pr.smiles, pr.label, pr.answer)
       IN pr' = [pr EXCEPT !.pc = out.pc, !.data = out.data]
    /\ UNCHANGED <<bfsVars, batchVars, trainVars, ss, ds>>

NextProcess == CallProcess

SpecProcess == InitProcess /\ [][NextProcess]_vars

\* The three dataset classes, whose process() methods differ in the file read
Datasets == {"Honma", "Hansen", "Combined"}

\* The molecules of the raw records: one atom, or two atoms and a bond
RecordMolecules == {m \in Molecules : m.atoms \in 1..2 /\ Cardinality(m.bonds) = m.atoms - 1}

\* What shortest_path_distance answers for a record's molecule: a path tensor
\* whose largest index is the last edge-feature row, or one past it
RecordAnswers(m) ==
    {[raises |-> FALSE, edge_paths |-> <<2 * Cardinality(m.bonds) + k>>, extra_edge_idxs |-> 0] :
        k \in 0..1}

\* The rows of the raw file: smiles, ames (nan when the label is missing)
RawRecords ==
    [smiles : {<<>>}, ames : Labels \cup {"nan"},
     answer : {[raises |-> TRUE, edge_paths |-> <<>>, extra_edge_idxs |-> 0]}]
        \cup UNION {[smiles : {<<m>>}, ames : Labels \cup {"nan"}, answer : RecordAnswers(m)] :
                        m \in RecordMolecules}

InitBuild ==
    /\ BfsIdle
    /\ BatchIdle
    /\ TrainIdle
    /\ StepIdle
    /\ pr = [pc |-> "idle"]
    /\ \E dataset \in Datasets, typed \in BOOLEAN,
          records \in UNION {[1..k -> RawRecords] : k \in 0..MaxRecords} :
          ds = [pc |-> "loop", dataset |-> dataset, records |-> records,
                \* whether shortest_path_distance is the function process calls for
                as_called |-> typed,
                i |-> 1, data_list |-> <<>>, warnings |-> <<>>,
                saved |-> <<>>, printed |-> <<>>]

\* lines 51-62 (Honma), 100-111 (Hansen), 149-160 (Combined): one record
BuildRecord ==
    /\ ds.pc = "loop"
    /\ ds.i <= Len(ds.records)
    /\ LET r == ds.records[ds.i]
           warning == check_smiles_and_label(r.smiles, r.ames)
           answer == IF ds.as_called THEN r.answer
                     ELSE [raises |-> TRUE, edge_paths |-> <<>>, extra_edge_idxs |-> 0]
       IN IF warning # <<>>
          THEN ds' = [ds EXCEPT !.warnings = Append(ds.warnings, warning), !.i = ds.i + 1]
          ELSE LET out == process(r.smiles, r.ames, answer)
               IN IF out.pc = "returned"
                  THEN ds' = [ds EXCEPT !.data_list = Append(ds.data_list, out.data),
                                        !.i = ds.i + 1]
                  ELSE \* the exception leaves the loop and the method
                       ds' = [ds EXCEPT !.pc = out.pc]
    /\ UNCHANGED <<bfsVars, batchVars, trainVars, ss, pr>>

\* lines 64-68: the data list is saved, then the warnings are printed
BuildSave ==
    /\ ds.pc = "loop"
    /\ ds.i > Len(ds.records)
    /\ ds' = [ds EXCEPT !.pc = "saved", !.saved = <<ds.data_list>>, !.printed = ds.warnings]
    /\ UNCHANGED <<bfsVars, batchVars, trainVars, ss, pr>>

NextBuild == BuildRecord \/ BuildSave

SpecBuild == InitBuild /\ [][NextBuild]_vars

\* ------------------------------------------- reference notions for the claims

\* Simple directed paths of g that extend the simple path p
RECURSIVE PathsFrom(_, _)
PathsFrom(g, p) ==
    {p} \cup UNION {PathsFrom(g, Append(p, w)) : w \in Range(g.adj[p[Len(p)]]) \ Range(p)}

\* Simple directed paths of g that start at s
SimplePaths(g, s) == PathsFrom(g, <<s>>)

PathsTo(g, s, t) == {p \in SimplePaths(g, s) : p[Len(p)] = t}

Reachable(g, s, t) == PathsTo(g, s, t) # {}

\* Minimum hop distance from s to a reachable t
Dist(g, s, t) ==
    CHOOSE d \in 0..Len(g.nodes) :
        /\ \E p \in PathsTo(g, s, t) : Len(p) - 1 = d
        /\ \A p \in PathsTo(g, s, t) : Len(p) - 1 >= d

ShortestPaths(g, s, t) == {p \in PathsTo(g, s, t) : Len(p) - 1 = Dist(g, s, t)}

\* t is at most d hops from s (any number of hops when there is no cutoff)
WithinCutoff(g, s, t, cutoff) ==
    Reachable(g, s, t) /\ (cutoff = NoCutoff \/ Dist(g, s, t) <= cutoff[1])

PosIn(seq, x) == CHOOSE i \in 1..Len(seq) : seq[i] = x

\* The enumeration positions a path takes: at each node, the rank of the next
\* node among that node's neighbours
EnumKey(g, p) == [i \in 1..(Len(p) - 1) |-> PosIn(g.adj[p[i]], p[i + 1])]

LexLeq(a, b) ==
    \/ a = b
    \/ \E i \in 1..Len(a) : a[i] < b[i] /\ \A j \in 1..(i - 1) : a[j] = b[j]

\* BFS discovery order with neighbours in enumeration order finds, among the
\* shortest paths, the one whose enumeration positions are lexicographically least
FirstDiscovered(g, s, t) ==
    CHOOSE p \in ShortestPaths(g, s, t) :
        \A q \in ShortestPaths(g, s, t) : LexLeq(EnumKey(g, p), EnumKey(g, q))

\* --------------------------------------------------------------- the claims

\* C3 (as claimed): with max_distance d >= 0 applied as the cutoff, every
\* returned path has at most d+1 nodes and a destination more than d hops away
\* (or unreachable) has no entry.
C3_CutoffBoundsPaths ==
    (fw.pc = "done" /\ fw.cutoff # NoCutoff) =>
        /\ \A t \in DOMAIN fw.node_paths : Len(fw.node_paths[t]) <= fw.cutoff[1] + 1
        /\ \A t \in NodeSet(G) :
               ~WithinCutoff(G, fw.source, t, fw.cutoff) => t \notin DOMAIN fw.node_paths

\* C4: every destination reachable within the cutoff has a path that starts at
\* the source, ends at the destination, follows edges of the graph, has the
\* minimum hop count, and is the shortest path found first in BFS discovery
\* order.
C4_ShortestFirstPath ==
    fw.pc = "done" =>
        \A t \in NodeSet(G) :
            WithinCutoff(G, fw.source, t, fw.cutoff) =>
                /\ t \in DOMAIN fw.node_paths
                /\ LET p == fw.node_paths[t]
                   IN /\ p[1] = fw.source
                      /\ p[Len(p)] = t
                      /\ \A i \in 1..(Len(p) - 1) : p[i + 1] \in Range(G.adj[p[i]])
                      /\ Len(p) - 1 = Dist(G, fw.source, t)
                      /\ p = FirstDiscovered(G, fw.source, t)

\* C4 witness: a returned table holding a destination that has two shortest paths
C4_Witness ==
    /\ fw.pc = "done"
    /\ \E t \in DOMAIN fw.node_paths : Cardinality(ShortestPaths(G, fw.source, t)) >= 2

\* C5: at every step of the expansion and in the returned tables the two
\* tables have the same destination keys and each node path is one longer than
\* its edge path.
C5_PathLengthsAgree ==
    /\ DOMAIN fw.node_paths = DOMAIN fw.edge_paths
    /\ \A t \in DOMAIN fw.node_paths : Len(fw.node_paths[t]) = Len(fw.edge_paths[t]) + 1

\* C5 witness: in the middle of an expansion, a path of two hops is in the tables
C5_Witness ==
    /\ fw.pc = "for"
    /\ \E t \in DOMAIN fw.node_paths : Len(fw.node_paths[t]) = 3 /\ Len(fw.edge_paths[t]) = 2

\* C6: from the initialisation on, through every step and in the result, the
\* source's own entries are the zero-length path: [s] and [].
C6_SelfPath ==
    fw.pc \in {"while", "for", "return", "done"} =>
        /\ fw.source \in DOMAIN fw.node_paths
        /\ fw.node_paths[fw.source] = <<fw.source>>
        /\ fw.edge_paths[fw.source] = <<>>

\* C6 witness: a run with cutoff 0 has returned after meeting an edge that
\* leads back to the source
C6_Witness ==
    /\ fw.pc = "done"
    /\ fw.cutoff = <<0>>
    /\ \E w \in DOMAIN fw.node_paths : w # fw.source /\ fw.source \in Range(G.adj[w])

\* Node counts n_1..n_k of the batch, and the id range graph i owns
RECURSIVE NodesBefore(_)
NodesBefore(i) == IF i <= 1 THEN 0 ELSE NodesBefore(i - 1) + Len(data[i - 1].nodes)

OwnRange(i) == NodesBefore(i)..(NodesBefore(i + 1) - 1)

\* C7: the batched tables have exactly the source keys 0..(n_1+...+n_k)-1, and
\* under a source of graph i every destination and every node on a path lies in
\* graph i's own range.
C7_BatchKeysPartition ==
    bpc.at = "done" =>
        /\ DOMAIN node_paths = 0..(NodesBefore(Len(data) + 1) - 1)
        /\ DOMAIN edge_paths = 0..(NodesBefore(Len(data) + 1) - 1)
        /\ \A i \in 1..Len(data) : \A s \in OwnRange(i) :
              /\ DOMAIN node_paths[s] \subseteq OwnRange(i)
              /\ DOMAIN edge_paths[s] \subseteq OwnRange(i)
              /\ \A t \in DOMAIN node_paths[s] : Range(node_paths[s][t]) \subseteq OwnRange(i)

\* C7 witness: a batch of a 3-node and a 4-node graph has been merged; the keys
\* are 0..6 and a two-hop path inside the second graph is stored
C7_Witness ==
    /\ bpc.at = "done"
    /\ Len(data) = 2
    /\ Len(data[1].nodes) = 3
    /\ Len(data[2].nodes) = 4
    /\ DOMAIN node_paths = 0..6
    /\ OwnRange(1) = {0, 1, 2}
    /\ OwnRange(2) = {3, 4, 5, 6}
    /\ \E s \in 3..6 : \E t \in DOMAIN node_paths[s] : Len(node_paths[s][t]) = 3

\* C1: for 0 <= batch_idx < train_batches_per_epoch and any accumulation_steps,
\* should_step is true exactly when accumulation_steps <= 1, or
\* (batch_idx+1) % accumulation_steps == 0, or batch_idx is the last batch index;
\* should_step(2,4,10) is false, should_step(3,4,10) and should_step(9,4,10) true.
C1_ShouldStepRule ==
    /\ ss.pc = "returned" =>
          (ss.result <=>
              \/ ss.accumulation_steps <= 1
              \/ (ss.batch_idx + 1) % ss.accumulation_steps = 0
              \/ ss.batch_idx = ss.train_batches_per_epoch - 1)
    /\ ~should_step(2, 4, 10)
    /\ should_step(3, 4, 10)
    /\ should_step(9, 4, 10)

\* C1 witness: the call should_step(9, 4, 10) has returned true (the final flush)
C1_Witness ==
    /\ ss.pc = "returned"
    /\ ss.batch_idx = 9
    /\ ss.accumulation_steps = 4
    /\ ss.train_batches_per_epoch = 10
    /\ ss.result

\* C2 (as claimed): in every epoch, with or without a search trial, once the
\* train phase is over (eval phase, checkpoint decision, prune check) no
\* accumulated gradient is left unapplied.
C2_EpochEndsFlushed ==
    tl.pc \in {"eval", "checkpoint", "prune"} => grads = 0

\* The "best" checkpoints among the saved ones, in order
BestSaved(saved) == SelectSeq(saved, LAMBDA c : c.tag = "best")

\* C8 (as claimed): at the checkpoint decision of every epoch, if the total
\* evaluation loss is strictly below the best loss a "best" checkpoint is saved
\* and the best loss becomes that total; otherwise neither happens.
C8_Original ==
    [][(tl.pc = "checkpoint" /\ tl'.pc # "checkpoint") =>
          IF tl.total_eval_loss < hparam_config.best_loss
          THEN /\ hparam_config'.best_loss = tl.total_eval_loss
               /\ BestSaved(checkpoints') =
                      Append(BestSaved(checkpoints),
                             [tag |-> "best", epoch |-> tl.epoch,
                              best_loss |-> tl.total_eval_loss])
          ELSE /\ hparam_config'.best_loss = hparam_config.best_loss
               /\ BestSaved(checkpoints') = BestSaved(checkpoints)]_vars

C8_Decision ==
    (tl.pc = "checkpoint" /\ tl'.pc # "checkpoint") =>
        IF ~trial.given /\ tl.total_eval_loss < hparam_config.best_loss
        THEN /\ hparam_config'.best_loss = tl.total_eval_loss
             /\ BestSaved(checkpoints') =
                    Append(BestSaved(checkpoints),
                           [tag |-> "best", epoch |-> tl.epoch,
                            best_loss |-> tl.total_eval_loss])
        ELSE /\ hparam_config'.best_loss = hparam_config.best_loss
             /\ BestSaved(checkpoints') = BestSaved(checkpoints)

C8_BestIsMinimum ==
    tl.pc # "idle" =>
        hparam_config.best_loss =
            IF trial.given THEN history.best_loss
            ELSE Min2(history.best_loss, history.min_total)

\* C8 (amended): without a search trial, an epoch whose total evaluation loss is
\* strictly below the best loss saves a "best" checkpoint and makes that total
\* the best loss, any other epoch does neither, and the best loss is the minimum
\* of its initial value and the totals of the epochs that reached the checkpoint
\* decision; inside a search trial no "best" checkpoint is saved and the best
\* loss keeps its initial value.
C8_BestCheckpoint == [](C8_BestIsMinimum) /\ [][C8_Decision]_vars

\* C8 witness: without a trial, an earlier epoch saved a "best" checkpoint and
\* the current epoch, whose loss is not below the best, saved none
C8_Witness ==
    /\ tl.pc = "prune"
    /\ ~trial.given
    /\ tl.total_eval_loss >= hparam_config.best_loss
    /\ \E i \in DOMAIN checkpoints :
          checkpoints[i].tag = "best" /\ checkpoints[i].epoch < tl.epoch
    /\ \A i \in DOMAIN checkpoints :
          checkpoints[i].tag = "best" => checkpoints[i].epoch # tl.epoch

\* How often a periodic checkpoint was saved for epoch e
PeriodicSaves(e) ==
    Cardinality({i \in DOMAIN checkpoints :
                    checkpoints[i].tag = "epoch" /\ checkpoints[i].epoch = e})

\* Epoch e has been through its checkpoint decision
Decided(e) == e < tl.epoch \/ (e = tl.epoch /\ tl.pc \in {"prune", "TrialPruned"})

\* C9 (as claimed): a run that went through all its epochs has saved a periodic
\* checkpoint for exactly the epochs e of [start_epoch, epochs) with
\* e % checkpt_save_interval == 0.
C9_Original ==
    (tl.pc = "returned" /\ hparam_config.checkpt_save_interval # 0) =>
        \A e \in hparam_config.start_epoch..(hparam_config.epochs - 1) :
            PeriodicSaves(e) >= 1 <=> PyMod(e, hparam_config.checkpt_save_interval) = 0

\* C9 (amended): without a search trial and for every nonzero interval, a
\* periodic checkpoint is saved exactly once for each epoch of
\* [start_epoch, epochs) that has reached its checkpoint decision and has
\* e % checkpt_save_interval == 0, and for no other epoch; inside a search trial
\* none is saved.
C9_PeriodicCheckpoints ==
    (tl.pc # "idle" /\ hparam_config.checkpt_save_interval # 0) =>
        \A e \in hparam_config.start_epoch..(hparam_config.epochs - 1) :
            PeriodicSaves(e) =
                IF /\ Decided(e)
                   /\ ~trial.given
                   /\ PyMod(e, hparam_config.checkpt_save_interval) = 0
                THEN 1 ELSE 0

\* C9 witness: a run without a trial has returned; one epoch has a periodic
\* checkpoint and no "best" one (its loss did not improve), another epoch is off
\* the interval and has no periodic checkpoint
C9_Witness ==
    /\ tl.pc = "returned"
    /\ ~trial.given
    /\ \E e \in hparam_config.start_epoch..(hparam_config.epochs - 1) :
          /\ PeriodicSaves(e) = 1
          /\ \A i \in DOMAIN checkpoints :
                checkpoints[i].tag = "best" => checkpoints[i].epoch # e
    /\ \E e \in hparam_config.start_epoch..(hparam_config.epochs - 1) : PeriodicSaves(e) = 0

C10_Reports ==
    (tl.pc # "idle" /\ trial.given) =>
        /\ Len(trial.reports) =
               (tl.epoch - hparam_config.start_epoch) + (IF tl.pc = "TrialPruned" THEN 1 ELSE 0)
        /\ \A i \in DOMAIN trial.reports :
               trial.reports[i].step = hparam_config.start_epoch + i - 1
        /\ trial.should_prune => tl.pc = "TrialPruned"

C10_ReportThenStop ==
    /\ (tl.pc = "prune" /\ tl'.pc # "prune" /\ trial.given) =>
           trial'.reports =
               Append(trial.reports,
                      [value |-> <<tl.total_eval_loss, eval_batches_per_epoch>>,
                       step |-> tl.epoch])
    /\ (trial.given /\ trial.should_prune) => UNCHANGED trainVars

\* C10: inside a search trial every completed epoch reports its evaluation loss
\* once, keyed by its epoch index, in increasing epoch order; once the trial
\* answers that it should be pruned the run is at TrialPruned and nothing of the
\* run changes any more (no batch, optimizer step, scheduler step or report).
C10_ReportAndPrune == [](C10_Reports) /\ [][C10_ReportThenStop]_vars

\* C10 witness: a trial was pruned at the end of its second epoch, after two reports
C10_Witness ==
    /\ tl.pc = "TrialPruned"
    /\ trial.given
    /\ Len(trial.reports) = 2

\* ---------------------------------------------------------------- C11

C11_Aborted ==
    tl.pc # "idle" => (tl.clip = "nonfinite" <=> tl.pc = "RuntimeError")

C11_ClipThenStep ==
    /\ optimizer_steps' # optimizer_steps =>
           /\ tl.pc = "train"
           /\ tl'.pc = "train"
           /\ tl'.batch_idx = tl.batch_idx + 1
           /\ tl'.clip = "finite"
    /\ tl'.pc = "RuntimeError" =>
           /\ optimizer_steps' = optimizer_steps
           /\ scheduler' = scheduler
           /\ checkpoints' = checkpoints
           /\ trial' = trial
           /\ hparam_config' = hparam_config
    /\ tl.pc = "RuntimeError" => UNCHANGED trainVars

\* C11: an optimizer step is taken only in a batch whose gradient clipping found
\* a finite norm; a batch whose norm is not finite ends the run with
\* RuntimeError at that batch, which takes no optimizer step, scheduler step,
\* checkpoint or trial report, and nothing of the run changes afterwards.
C11_FiniteClipOrAbort == [](C11_Aborted) /\ [][C11_ClipThenStep]_vars

\* C11 witness: the run was aborted by a non-finite norm in a later batch, after
\* earlier batches had stepped the optimizer and gradients had accumulated
C11_Witness ==
    /\ tl.pc = "RuntimeError"
    /\ tl.clip = "nonfinite"
    /\ tl.batch_idx > 0
    /\ optimizer_steps > 0
    /\ grads > 1

\* ---------------------------------------------------------------- C12

\* C12: with a one-cycle scheduler the scheduler is stepped exactly when the
\* optimizer is stepped, once each time, so that at every point of the run the
\* number of scheduler steps equals the number of optimizer steps.
C12_OneCyclePerOptimizerStep ==
    (tl.pc # "idle" /\ scheduler.kind = "one-cycle") =>
        /\ scheduler.steps = optimizer_steps
        /\ scheduler.metric = <<>>

\* C12 witness: a one-cycle run with gradient accumulation has ended a train
\* phase of three batches with two optimizer steps (the window and the flush)
C12_Witness ==
    /\ scheduler.kind = "one-cycle"
    /\ tl.pc = "eval"
    /\ accumulation_steps = 2
    /\ train_batches_per_epoch = 3
    /\ tl.epoch = hparam_config.start_epoch
    /\ optimizer_steps = 2
    /\ scheduler.steps = 2

\* ---------------------------------------------------------------- C13

\* Epochs of the run whose eval phase has ended
EpochsPastEval ==
    (tl.epoch - hparam_config.start_epoch)
        + (IF tl.pc \in {"checkpoint", "prune", "TrialPruned", "ZeroDivisionError"}
           THEN 1 ELSE 0)

C13_OncePerEpoch ==
    (tl.pc # "idle" /\ scheduler.kind \in {"greedy", "plateau"}) =>
        /\ scheduler.steps = EpochsPastEval
        /\ tl.pc \in {"checkpoint", "prune", "TrialPruned", "ZeroDivisionError"} =>
               scheduler.metric = <<history.epoch_eval_sum>>

C13_StepAfterEval ==
    (scheduler.kind \in {"greedy", "plateau"} /\ scheduler' # scheduler) =>
        /\ tl.pc = "eval"
        /\ tl.eval_idx = eval_batches_per_epoch
        /\ tl'.pc \in {"checkpoint", "ZeroDivisionError"}
        /\ scheduler'.steps = scheduler.steps + 1
        /\ scheduler'.metric = <<history.epoch_eval_sum>>

\* C13: with a greedy or plateau scheduler, scheduler.step is called once per
\* epoch, when all eval batches of the epoch are done and never in the train
\* phase, and its argument is the sum of the eval batch losses of that epoch
\* alone.
C13_MetricStepPerEpoch == [](C13_OncePerEpoch) /\ [][C13_StepAfterEval]_vars

\* C13 witness: in a trial with a greedy scheduler the first epoch reported the
\* loss 2 * MaxLoss over two eval batches, the second epoch has stepped the
\* scheduler with its own, smaller sum
C13_Witness ==
    /\ scheduler.kind = "greedy"
    /\ trial.given
    /\ tl.pc = "prune"
    /\ eval_batches_per_epoch = 2
    /\ Len(trial.reports) = 1
    /\ trial.reports[1].value[1] = 2 * MaxLoss
    /\ scheduler.steps = 2
    /\ scheduler.metric = <<MaxLoss>>

\* ---------------------------------------------------------------- C14

\* Epochs of the run whose train phase has ended (by exhaustion or cut short)
EpochsPastTrain ==
    (tl.epoch - hparam_config.start_epoch)
        + (IF tl.pc \in {"eval", "checkpoint", "prune", "TrialPruned", "ZeroDivisionError"}
           THEN 1 ELSE 0)

\* C14: with a polynomial scheduler the scheduler has been stepped once for each
\* epoch whose train phase has ended, whatever the number of batches, the
\* accumulation steps, the optimizer steps taken and whether the train phase was
\* cut short; it is never stepped with a metric.
C14_PolynomialPerEpoch ==
    (tl.pc # "idle" /\ scheduler.kind = "polynomial") =>
        /\ scheduler.steps = EpochsPastTrain
        /\ scheduler.metric = <<>>

\* C14 witness: a polynomial run of two epochs in a trial, every train phase cut
\* short after its first batch with no optimizer step at all, has returned with
\* two scheduler steps
C14_Witness ==
    /\ scheduler.kind = "polynomial"
    /\ trial.given
    /\ tl.pc = "returned"
    /\ hparam_config.epochs - hparam_config.start_epoch = 2
    /\ train_batches_per_epoch = 3
    /\ hparam_config.tune_size = 0
    /\ optimizer_steps = 0
    /\ scheduler.steps = 2

\* ---------------------------------------------------------------- C20

\* The epoch's phases follow one another in the order of the loop body
C20_PhaseOrder ==
    tl'.pc # tl.pc =>
        \/ tl.pc = "epoch" /\ tl'.pc \in {"train", "returned"}
        \/ tl.pc = "train" /\ tl'.pc \in {"eval", "RuntimeError"}
        \/ tl.pc = "eval" /\ tl'.pc \in {"checkpoint", "ZeroDivisionError"}
        \/ tl.pc = "checkpoint" /\ tl'.pc \in {"prune", "ZeroDivisionError"}
        \/ tl.pc = "prune" /\ tl'.pc \in {"epoch", "TrialPruned"}

\* Checkpoints are saved at the checkpoint decision, reports at the prune check
C20_SavesAndReports ==
    /\ checkpoints' # checkpoints => (tl.pc = "checkpoint" /\ tl'.pc # "checkpoint")
    /\ trial' # trial => (tl.pc = "prune" /\ tl'.pc # "prune")

\* C20 (as claimed): for every scheduler kind, a scheduler step happens only
\* when the epoch's eval phase has finished, and checkpoints are saved only at
\* the checkpoint decision that follows it.
C20_Original ==
    [][/\ C20_PhaseOrder
       /\ C20_SavesAndReports
       /\ scheduler' # scheduler =>
              (tl.pc = "eval" /\ tl'.pc \in {"checkpoint", "ZeroDivisionError"})]_vars

C20_SchedulerPlace ==
    scheduler' # scheduler =>
        CASE scheduler.kind \in {"greedy", "plateau"} ->
                 tl.pc = "eval" /\ tl'.pc \in {"checkpoint", "ZeroDivisionError"}
          [] scheduler.kind = "polynomial" ->
                 tl.pc = "train" /\ tl'.pc = "eval"
          [] scheduler.kind = "one-cycle" ->
                 tl.pc = "train" /\ tl'.pc = "train" /\ optimizer_steps' = optimizer_steps + 1
          [] OTHER -> FALSE

\* C20 (amended): in every epoch the phases occur in the order train phase,
\* eval phase, checkpoint decision, trial report and prune check; checkpoints
\* are saved only at the checkpoint decision and reports made only at the prune
\* check; a greedy or plateau scheduler steps between the eval phase and the
\* checkpoint decision, a polynomial scheduler between the train phase and the
\* eval phase, a one-cycle scheduler inside the train phase with each optimizer
\* step, a fixed one never.
C20_PhasesInOrder ==
    [][C20_PhaseOrder /\ C20_SavesAndReports /\ C20_SchedulerPlace]_vars

\* C20 witness: a one-cycle run without a trial has saved both checkpoints of
\* its first epoch after the scheduler was stepped in the train phase
C20_Witness ==
    /\ scheduler.kind = "one-cycle"
    /\ tl.pc = "prune"
    /\ tl.epoch = hparam_config.start_epoch
    /\ scheduler.steps > 1
    /\ Len(checkpoints) = 2

\* ---------------------------------------------------------------- C15

ReducedOnce(lr, factor, min_lr) ==
    IF lr * factor[1] <= min_lr * factor[2] THEN min_lr ELSE (lr * factor[1]) \div factor[2]

\* The rate after `streak` consecutive non-improving values fed after warmup and
\* outside a cooldown, from the rate lr0: unchanged up to patience values,
\* reduced once from value patience+1 to the end of the cooldown that follows
C16_OneReduction ==
    IF scheduler.streak <= scheduler.patience
    THEN scheduler.lr = scheduler.lr0
    ELSE scheduler.streak <= scheduler.patience + 1 + scheduler.cooldown =>
             scheduler.lr = ReducedOnce(scheduler.lr0, scheduler.factor, scheduler.min_lr)

C17_SuperNodeCounts ==
    pr.pc = "returned" =>
        LET N == pr.smiles[1].atoms
            E == 2 * Cardinality(pr.smiles[1].bonds)
            added == SubSeq(pr.data.edge_index, 1, Len(pr.data.edge_index) - E)
        IN /\ Len(pr.data.x) = N + 1
           /\ pr.data.x[1] = "super"
           /\ Len(pr.data.edge_index) = E + N
           /\ Range(added) = {<<0, i>> : i \in 1..N}

\* ---------------------------------------------------------------- C18

\* C18: process returns a record only if the largest entry of its edge_paths is
\* the number of its edge-feature rows minus one, and the record it returns is
\* the whole augmented one; in every other case the call ends in an exception
\* and there is no record.
C18_RecordOnlyIfConsistent ==
    pr.pc \notin {"idle", "call"} =>
        IF /\ ~pr.answer.raises
           /\ pr.answer.edge_paths # <<>>
           /\ TensorMax(pr.answer.edge_paths)
                  = 2 * Cardinality(pr.smiles[1].bonds) + pr.answer.extra_edge_idxs
        THEN /\ pr.pc = "returned"
             /\ TensorMax(pr.data.edge_paths) = Len(pr.data.edge_attr) - 1
             /\ Len(pr.data.edge_attr)
                    = 1 + 2 * Cardinality(pr.smiles[1].bonds) + pr.answer.extra_edge_idxs
        ELSE /\ pr.pc \in {"AssertionError", "RuntimeError", "TypeError"}
             /\ pr.data = <<>>

\* C18 witness: a record was returned for a molecule with two bonds and two
\* extra edge rows, whose paths reach the last of the seven edge-feature rows
C18_Witness ==
    /\ pr.pc = "returned"
    /\ Cardinality(pr.smiles[1].bonds) = 2
    /\ pr.answer.extra_edge_idxs = 2
    /\ Len(pr.data.edge_attr) = 7
    /\ TensorMax(pr.data.edge_paths) = 6
    /\ Len(pr.data.edge_paths) = 2

\* ---------------------------------------------------------------- C19

\* The record has a label and a parseable SMILES string
Convertible(r) == r.ames # "nan" /\ r.smiles # <<>>

\* The records the loop has been through
Consumed == SubSeq(ds.records, 1, ds.i - 1)

Skipped == SelectSeq(Consumed, LAMBDA r : ~Convertible(r))

Converted == SelectSeq(Consumed, LAMBDA r : Convertible(r))

\* One warning per skipped record and one entry per other record, in input order
C19_WarningsAndEntries ==
    /\ Len(ds.warnings) = Len(Skipped)
    /\ \A j \in DOMAIN ds.warnings :
          /\ ds.warnings[j][2] = Skipped[j].smiles
          /\ ds.warnings[j][1] = IF Skipped[j].ames = "nan" THEN "WARN: No label"
                                 ELSE "WARN: Invalid SMILES"
    /\ Len(ds.data_list) = Len(Converted)
    /\ \A j \in DOMAIN ds.data_list :
          /\ ds.data_list[j].y = Converted[j].ames
          /\ Len(ds.data_list[j].x) = Converted[j].smiles[1].atoms + 1

C21_EffectiveBatchCount ==
    tl.pc # "idle" => hparam_config.last_effective_batch_num = 0 + optimizer_steps

\* ---------------------------------------------------------------- C22

\* The batch indices of an epoch whose ratio to the epoch's batch count exceeds
\* tune_size
OverFraction ==
    {b \in 0..train_batches_per_epoch :
        b * TuneDen > hparam_config.tune_size * train_batches_per_epoch}

\* The batch index where the train phase of an epoch stops: the first index over
\* the fraction in a search trial, the number of batches otherwise
StopIndex ==
    IF trial.given /\ OverFraction # {}
    THEN CHOOSE b \in OverFraction : \A c \in OverFraction : b <= c
    ELSE train_batches_per_epoch

\* C22: apart from the fatal errors (RuntimeError of the clipping,
\* ZeroDivisionError), train_model leaves its loops early only at the prune
\* check and at the fraction-of-epoch cutoff, and both need a trial. Without a
\* trial, whatever tune_size is, the train phase ends only after every train
\* batch, the eval phase only after every eval batch, the epochs advance one by
\* one from start_epoch and the run returns only after the last epoch. With a
\* trial the train phase processes exactly the batches below the first index
\* whose ratio batch_idx / batches_per_epoch exceeds tune_size and stops there;
\* the eval phase is never cut, and the run is pruned only at the prune check.
C22_EarlyExitsNeedTrial ==
    [][ /\ (tl.pc = "train" /\ tl'.pc = "eval") => tl.batch_idx = StopIndex
        /\ (tl.pc = "train" /\ tl'.pc \in {"train", "RuntimeError"})
               => tl.batch_idx < StopIndex
        /\ (tl.pc = "eval" /\ tl'.pc # "eval") => tl.eval_idx = eval_batches_per_epoch
        /\ (tl.pc # "TrialPruned" /\ tl'.pc = "TrialPruned")
               => trial.given /\ tl.pc = "prune"
        /\ (tl.pc # "returned" /\ tl'.pc = "returned")
               => tl.pc = "epoch" /\ tl.epoch = hparam_config.epochs
        /\ tl'.epoch # tl.epoch => tl.pc = "prune" /\ tl'.epoch = tl.epoch + 1
        /\ ~trial.given => StopIndex = train_batches_per_epoch
      ]_vars

\* A run without a trial and with tune_size 0 that returned after taking an
\* optimizer step on every batch of every epoch
C22_Witness ==
    /\ tl.pc = "returned"
    /\ ~trial.given
    /\ hparam_config.tune_size = 0
    /\ hparam_config.start_epoch = 0
    /\ hparam_config.epochs = MaxEpochs
    /\ train_batches_per_epoch = MaxTrainBatches
    /\ accumulation_steps = 1
    /\ optimizer_steps = MaxEpochs * MaxTrainBatches

\* A trial run with tune_size 1/2 whose train phase of three batches stopped
\* at batch index 2
C22_TrialCut ==
    /\ tl.pc = "eval"
    /\ trial.given
    /\ hparam_config.tune_size * 2 = TuneDen
    /\ train_batches_per_epoch = 3
    /\ tl.batch_idx = 2

\* ---------------------------------------------------------------- C23

\* The index, in the enumeration G.edges(), of the edge joining u and v: the
\* pair (u, v) itself, or for an undirected graph the pair in either orientation
EdgeIndices(g, u, v) ==
    LET es == G_edges(g)
    IN {i - 1 : i \in {j \in 1..Len(es) :
                        \/ es[j] = <<u, v>>
                        \/ ~g.directed /\ es[j] = <<v, u>>}}

\* Every entry of every edge path is the index of the edge joining the two
\* nodes at its place in the node path, and lies in 0..E-1
EdgePathsIndexEdges ==
    \A t \in DOMAIN fw.edge_paths :
        /\ Len(fw.edge_paths[t]) = Len(fw.node_paths[t]) - 1
        /\ \A i \in 1..Len(fw.edge_paths[t]) :
              /\ EdgeIndices(G, fw.node_paths[t][i], fw.node_paths[t][i + 1])
                    = {fw.edge_paths[t][i]}
              /\ fw.edge_paths[t][i] \in 0..(Len(G_edges(G)) - 1)

\* C23 (as claimed): in a call of floyd_warshall_source_to_all on a graph whose
\* edges are each enumerated once, directed or undirected, the lookup of the
\* edge index never fails, and in the result the i-th entry of edge_paths[t] is
\* the index in G.edges() of the edge joining the i-th and (i+1)-th node of
\* node_paths[t], a number in 0..E-1.
C23_EdgeIndexLookup ==
    /\ fw.pc # "KeyError"
    /\ fw.pc = "done" => EdgePathsIndexEdges

\* The directed half of C23: on a DiGraph the lookup never fails and the result
\* holds the indices of the traversed edges
C23_Directed ==
    G.directed => C23_EdgeIndexLookup

\* ---------------------------------------------------------------- C24

\* The pair of tables a worker computes for the i-th relabelled graph; it
\* depends on that graph alone
WorkerTables(i) == batched_all_pairs_shortest_path(relabeled_graphs[i])

\* The orders the graphs of the batch can be merged in
MergeOrders ==
    {p \in [1..Len(relabeled_graphs) -> 1..Len(relabeled_graphs)] :
        \A i, j \in DOMAIN p : i # j => p[i] # p[j]}

\* The table (1: node paths, 2: edge paths) merged in the order p, from its
\* k-th graph on
RECURSIVE MergedInOrder(_, _, _, _)
MergedInOrder(table, which, p, k) ==
    IF k > Len(p) THEN table
    ELSE MergedInOrder(MergeInto(table, WorkerTables(p[k])[which]), which, p, k + 1)

\* No source key is in the tables of two different graphs
SourceKeysDisjoint ==
    \A i, j \in 1..Len(relabeled_graphs) :
        i # j => (DOMAIN WorkerTables(i)[1]) \cap (DOMAIN WorkerTables(j)[1]) = {}

\* The table is the plain union of the graphs' tables: every entry of every
\* graph is there as the graph's worker computed it, and nothing else
PlainUnion(table, which) ==
    /\ DOMAIN table = UNION {DOMAIN WorkerTables(i)[which] : i \in 1..Len(relabeled_graphs)}
    /\ \A i \in 1..Len(relabeled_graphs) : \A s \in DOMAIN WorkerTables(i)[which] :
          table[s] = WorkerTables(i)[which][s]

\* C24: in batched_shortest_path_distance no source key belongs to the tables
\* of two different graphs; every step of the merge writes only keys that were
\* absent and leaves the entries already merged as they are; and the tables
\* returned are the plain union of the per-graph tables, equal to what merging
\* the per-graph tables in any other order gives.
C24_MergeOrderFree ==
    /\ [](bpc.at \in {"merge", "done"} => SourceKeysDisjoint)
    /\ [](bpc.at = "done" =>
             /\ PlainUnion(node_paths, 1)
             /\ PlainUnion(edge_paths, 2)
             /\ \A p \in MergeOrders :
                   /\ MergedInOrder(EmptyDict, 1, p, 1) = node_paths
                   /\ MergedInOrder(EmptyDict, 2, p, 1) = edge_paths)
    /\ [][(bpc.at = "merge" /\ bpc'.at = "merge") =>
             /\ (DOMAIN WorkerTables(bpc.i)[1]) \cap (DOMAIN node_paths) = {}
             /\ (DOMAIN WorkerTables(bpc.i)[2]) \cap (DOMAIN edge_paths) = {}
             /\ \A s \in DOMAIN node_paths :
                   s \in DOMAIN node_paths' /\ node_paths'[s] = node_paths[s]
             /\ \A s \in DOMAIN edge_paths :
                   s \in DOMAIN edge_paths' /\ edge_paths'[s] = edge_paths[s]]_vars

\* C24 witness: two graphs of two or more nodes, each with an edge, have been
\* merged; the second graph's entries were written next to the first graph's
C24_Witness ==
    /\ bpc.at = "done"
    /\ Len(data) = 2
    /\ \A i \in 1..2 : Len(data[i].nodes) >= 2 /\ G_edges(data[i]) # <<>>
    /\ DOMAIN node_paths = 0..(Len(data[1].nodes) + Len(data[2].nodes) - 1)
    /\ \E s \in DOMAIN edge_paths : s >= Len(data[1].nodes) /\
          \E t \in DOMAIN edge_paths[s] : edge_paths[s][t] # <<>>

\* ---------------------------------------------------------------- C25

\* The node offset of the i-th graph of the batch: the node counts of the
\* graphs before it
RECURSIVE Offset(_)
Offset(i) == IF i = 1 THEN 0 ELSE Offset(i - 1) + Len(data[i - 1].nodes)

\* A path table of one graph with source keys and destination keys increased
\* by o, and the entries mapped by f
Shifted(table, o, f(_)) ==
    [s \in {k + o : k \in DOMAIN table} |->
        [t \in {k + o : k \in DOMAIN table[s - o]} |-> f(table[s - o][t - o])]]

\* C25: when the batched routine returns, for every graph i of the batch with
\* node offset o_i, the entries under graph i's sources are the single-graph
\* all-pairs result of graph i with every source key, destination key and node
\* on a path increased by o_i, and the edge paths are those of the single graph
\* as they are: indices into graph i's own edge enumeration, from 0.
C25_BatchIsShiftedSingle ==
    bpc.at = "done" =>
        \A i \in 1..Len(data) :
            LET single == all_pairs_shortest_path(data[i])
                o == Offset(i)
                AddOffset(path) == [k \in 1..Len(path) |-> path[k] + o]
                Same(path) == path
                own == {n + o : n \in NodeSet(data[i])}
            IN /\ own \subseteq DOMAIN node_paths
               /\ own \subseteq DOMAIN edge_paths
               /\ [s \in own |-> node_paths[s]] = Shifted(single[1], o, AddOffset)
               /\ [s \in own |-> edge_paths[s]] = Shifted(single[2], o, Same)

\* C25 witness: the batch has returned; its second graph, behind a first graph
\* of two nodes and one edge, has a two-hop path that is stored under sources
\* and nodes increased by 2 with the edge indices 0 and 1 of the graph itself
C25_Witness ==
    /\ bpc.at = "done"
    /\ Len(data) = 2
    /\ Len(data[1].nodes) = 2
    /\ Len(G_edges(data[1])) = 1
    /\ \E s \in NodeSet(data[2]) : \E t \in DOMAIN all_pairs_shortest_path(data[2])[2][s] :
          /\ Len(all_pairs_shortest_path(data[2])[2][s][t]) = 2
          /\ edge_paths[s + 2][t + 2] = all_pairs_shortest_path(data[2])[2][s][t]
          /\ Range(edge_paths[s + 2][t + 2]) = {0, 1}
          /\ node_paths[s + 2][t + 2][1] = s + 2

====
